---- MODULE Spec2Model ----
(***************************************************************************)
(* A model of the han crate: the frame scanners of src/read.rs (Reader and *)
(* AsyncReader), Readout::to_telegram, and the object decoder of           *)
(* src/obis.rs.  Bytes and characters are their ASCII codes.               *)
(***************************************************************************)
EXTENDS Integers, Sequences, FiniteSets, TLC

VARIABLES
    input,      \* history: the whole byte stream of a finite-stream run
    rest,       \* the source: bytes not yet consumed (reader.consume drops a prefix)
    eof,        \* the source has no bytes beyond rest
    buffer,     \* AsyncReader.buffer: None or Some(Buffer)
    pc,         \* next_readout: "ready" (no call pending), "scan" (awaiting
                \* fill_buf in scan_to_next), "fill" (awaiting fill_buf in the
                \* Some branch)
    ret,        \* what the last completed next_readout call returned
    frames,     \* the caller's list of the readouts it received
    cur,        \* history: source bytes consumed since scan_to_next stopped at a '/'
    ev,         \* history: what the last handler step did
    hist,       \* history: has a call been abandoned with a partial frame held
                \* (cancel), suspended between a '!' and the end of its frame
                \* (midCrc), ended a frame for lack of room (overflow)
    iter,       \* Reader.iter: the bytes the iterator has not produced yet
    sframes,    \* the readouts Reader::next has produced
    sret,       \* what the last Reader::next call returned
    sovf,       \* history: Reader::next ran out of buffer
    arg,        \* the argument of the function under study (to_telegram's
                \* buffer, Object::from_str's line)
    res         \* what the function returned

scanVars == <<input, rest, eof, buffer, pc, ret, frames, cur, ev, hist>>
syncVars == <<iter, sframes, sret, sovf>>
funVars == <<arg, res>>
vars == <<scanVars, syncVars, funVars>>

-----------------------------------------------------------------------------
(* Bounds of the model. *)

\* The capacity of Buffer.data and Readout.buffer ([u8; 2048] in the source),
\* scaled down so that frames that fit and frames that overflow both occur.
Capacity == 7
\* Longest byte stream of a finite-stream run.
MaxLen == 8
\* Most unconsumed bytes the source holds in a streaming run.
MaxPending == 3
\* The length of the readouts given to to_telegram (2048 in the source), and
\* the longest header they hold.
ReadoutLen == 24
HeaderMax == 7

-----------------------------------------------------------------------------
(* Bytes. *)

Slash == 47
Bang == 33
\* The bytes streams are made of: '/', '!' and 'x' (any other byte).
Alphabet == {Slash, Bang, 120}

None == <<>>
Some(x) == <<x>>

\* What a call has returned: nothing yet, None, or Some(Readout { buffer }).
Pending == <<"pending">>
RetNone == <<"none">>
RetSome(data) == <<"some", data>>

SeqsUpTo(S, n) == UNION {[1..k -> S] : k \in 0..n}
Drop(s, k) == SubSeq(s, k + 1, Len(s))
Take(s, k) == SubSeq(s, 1, k)
\* s as the first bytes of a zeroed array of Capacity bytes
Pad(s) == [i \in 1..Capacity |-> IF i <= Len(s) THEN s[i] ELSE 0]

-----------------------------------------------------------------------------
(* AsyncReader *)

\* Buffer::new()
BufferNew == [data |-> [i \in 1..Capacity |-> 0], pos |-> 0, len |-> None]

\* buf.iter().position(|b| *b == b'/'): 0-based, None when there is none
Position(buf) ==
    LET hits == {i \in 1..Len(buf) : buf[i] = Slash}
    IN  IF hits = {} THEN None
        ELSE Some((CHOOSE i \in hits : \A j \in hits : i <= j) - 1)

\* What fill_buf may return: the source's unread bytes, as much of them as it
\* has buffered (at least one); nothing only at the end of the data.
FillBuf ==
    IF rest = <<>> THEN (IF eof THEN {<<>>} ELSE {})
    ELSE {Take(rest, k) : k \in 1..Len(rest)}

\* The for loop over buf.iter().enumerate() of next_readout, from index i with
\* Buffer b: how it ends ("more": the chunk is used up), how many bytes are
\* consumed, the Buffer left and the data of the readout returned.
RECURSIVE FillLoop(_, _, _)
FillLoop(b, buf, i) ==
    IF i = Len(buf)
    THEN [outcome |-> "more", consume |-> Len(buf), buffer |-> Some(b), readout |-> None]
    ELSE IF b.pos >= Capacity
    THEN [outcome |-> "overflow", consume |-> i, buffer |-> None, readout |-> None]
    ELSE LET byte == buf[i + 1]
             data == [b.data EXCEPT ![b.pos + 1] = byte]
         IN  IF b.len # None /\ b.pos >= b.len[1]
             THEN [outcome |-> "yield", consume |-> i, buffer |-> None,
                   readout |-> Some(data)]
             ELSE FillLoop([data |-> data,
                            pos |-> b.pos + 1,
                            len |-> IF byte = Bang THEN Some(b.pos + 4) ELSE b.len],
                           buf, i + 1)

\* Fill with the terminal length kept in a local of the call, lost at each await.
FillForgetsLen(b, buf) == FillLoop([b EXCEPT !.len = None], buf, 0)

\* Fill taking the byte that found no room out of the source as well.
FillEatsOverflow(b, buf) ==
    LET r == FillLoop(b, buf, 0)
    IN  IF r.outcome = "overflow" THEN [r EXCEPT !.consume = @ + 1] ELSE r

Fill(b, buf) == FillLoop(b, buf, 0)

\* next_readout is called: it runs to its first await, in scan_to_next or in
\* the Some branch.  The caller keeps the readout of its previous call in
\* frames, or (keep = FALSE) lets go of it.
Invoke(keep) ==
    /\ pc = "ready"
    /\ pc' = IF buffer = None THEN "scan" ELSE "fill"
    /\ frames' = IF keep /\ ret[1] = "some" THEN Append(frames, ret[2]) ELSE frames
    /\ ret' = Pending
    /\ ev' = "call"
    /\ UNCHANGED <<input, rest, eof, buffer, cur, hist>>

Call == Invoke(TRUE)
CallStreaming == Invoke(FALSE)

\* scan_to_next consuming the '/' it stops at.
ScanToNextEatsSlash ==
    /\ pc = "scan"
    /\ \E buf \in FillBuf :
         IF Len(buf) = 0
         THEN /\ pc' = "ready"
              /\ ret' = RetNone
              /\ ev' = "eof"
              /\ UNCHANGED <<rest, buffer, cur>>
         ELSE IF Position(buf) # None
         THEN /\ rest' = Drop(rest, Position(buf)[1] + 1)
              /\ buffer' = Some(BufferNew)
              /\ pc' = "fill"
              /\ cur' = <<>>
              /\ ev' = "start"
              /\ UNCHANGED ret
         ELSE /\ rest' = Drop(rest, Len(buf))
              /\ ev' = "skip"
              /\ UNCHANGED <<buffer, pc, ret, cur>>
    /\ UNCHANGED <<input, eof, frames, hist>>

\* scan_to_next resumes from fill_buf and runs to the next await or return.
ScanToNext ==
    /\ pc = "scan"
    /\ \E buf \in FillBuf :
         IF Len(buf) = 0
         THEN /\ pc' = "ready"
              /\ ret' = RetNone
              /\ ev' = "eof"
              /\ UNCHANGED <<rest, buffer, cur>>
         ELSE IF Position(buf) # None
         THEN /\ rest' = Drop(rest, Position(buf)[1])
              /\ buffer' = Some(BufferNew)
              /\ pc' = "fill"
              /\ cur' = <<>>
              /\ ev' = "start"
              /\ UNCHANGED ret
         ELSE /\ rest' = Drop(rest, Len(buf))
              /\ ev' = "skip"
              /\ UNCHANGED <<buffer, pc, ret, cur>>
    /\ UNCHANGED <<input, eof, frames, hist>>

\* The Some branch handing out the frame it holds when the data ends.
FillBufferFlushesAtEof ==
    /\ pc = "fill"
    /\ \E buf \in FillBuf :
         IF Len(buf) = 0
         THEN /\ pc' = "ready"
              /\ ret' = RetSome(buffer[1].data)
              /\ buffer' = None
              /\ ev' = "eof"
              /\ UNCHANGED <<rest, cur, hist>>
         ELSE LET r == Fill(buffer[1], buf)
              IN  /\ rest' = Drop(rest, r.consume)
                  /\ cur' = cur \o Take(buf, r.consume)
                  /\ buffer' = r.buffer
                  /\ ev' = r.outcome
                  /\ pc' = CASE r.outcome = "more" -> "fill"
                             [] r.outcome = "overflow" -> "scan"
                             [] r.outcome = "yield" -> "ready"
                  /\ ret' = IF r.outcome = "yield" THEN RetSome(r.readout[1]) ELSE ret
                  /\ hist' = [hist EXCEPT
                         !.midCrc = @ \/ (r.outcome = "more" /\ r.buffer[1].len # None),
                         !.overflow = @ \/ r.outcome = "overflow"]
    /\ UNCHANGED <<input, eof, frames>>

\* The Some branch of next_readout resumes from fill_buf and runs to the next
\* await or return.
FillBuffer ==
    /\ pc = "fill"
    /\ \E buf \in FillBuf :
         IF Len(buf) = 0
         THEN /\ pc' = "ready"
              /\ ret' = RetNone
              /\ ev' = "eof"
              /\ UNCHANGED <<rest, buffer, cur, hist>>
         ELSE LET r == Fill(buffer[1], buf)
              IN  /\ rest' = Drop(rest, r.consume)
                  /\ cur' = cur \o Take(buf, r.consume)
                  /\ buffer' = r.buffer
                  /\ ev' = r.outcome
                  /\ pc' = CASE r.outcome = "more" -> "fill"
                             [] r.outcome = "overflow" -> "scan"
                             [] r.outcome = "yield" -> "ready"
                  /\ ret' = IF r.outcome = "yield" THEN RetSome(r.readout[1]) ELSE ret
                  /\ hist' = [hist EXCEPT
                         !.midCrc = @ \/ (r.outcome = "more" /\ r.buffer[1].len # None),
                         !.overflow = @ \/ r.outcome = "overflow"]
    /\ UNCHANGED <<input, eof, frames>>

\* Cancel with the partial frame held by the dropped future, not by the reader.
CancelDropsBuffer ==
    /\ pc \in {"scan", "fill"}
    /\ pc' = "ready"
    /\ ev' = "cancel"
    /\ buffer' = None
    /\ hist' = [hist EXCEPT !.cancel = @ \/ (buffer # None /\ buffer[1].pos > 0)]
    /\ UNCHANGED <<input, rest, eof, ret, frames, cur>>

\* The caller drops the future of a pending call at its await.
Cancel ==
    /\ pc \in {"scan", "fill"}
    /\ pc' = "ready"
    /\ ev' = "cancel"
    /\ hist' = [hist EXCEPT !.cancel = @ \/ (buffer # None /\ buffer[1].pos > 0)]
    /\ UNCHANGED <<input, rest, eof, buffer, ret, frames, cur>>

\* The source receives one more byte, or its end.
Feed ==
    /\ ~eof
    /\ Len(rest) < MaxPending
    /\ \/ \E b \in Alphabet : rest' = Append(rest, b) /\ eof' = eof
       \/ eof' = TRUE /\ rest' = rest
    /\ UNCHANGED <<input, buffer, pc, ret, frames, cur, ev, hist>>

-----------------------------------------------------------------------------
(* Reader *)

\* The copy loop of Reader::next with i bytes written: the call's result
\* (None or Some(buffer)), the iterator left, and whether write refused a byte.
RECURSIVE CopyCrc(_, _, _, _)
CopyCrc(data, i, it, k) ==
    IF k = 0 THEN [ret |-> Some(data), iter |-> it, ovf |-> FALSE]
    ELSE IF it = <<>> THEN [ret |-> None, iter |-> it, ovf |-> FALSE]
    ELSE IF i >= Capacity THEN [ret |-> None, iter |-> Tail(it), ovf |-> TRUE]
    ELSE CopyCrc([data EXCEPT ![i + 1] = Head(it)], i + 1, Tail(it), k - 1)

\* The copy loop adding 3 bytes after the '!' instead of 4.
RECURSIVE CopyLoopThree(_, _, _)
CopyLoopThree(data, i, it) ==
    IF it = <<>> THEN [ret |-> None, iter |-> it, ovf |-> FALSE]
    ELSE IF i >= Capacity THEN [ret |-> None, iter |-> Tail(it), ovf |-> TRUE]
    ELSE LET d == [data EXCEPT ![i + 1] = Head(it)]
         IN  IF Head(it) = Bang
             THEN CopyCrc(d, i + 1, Tail(it), 3)
             ELSE CopyLoopThree(d, i + 1, Tail(it))

RECURSIVE CopyLoop(_, _, _)
CopyLoop(data, i, it) ==
    IF it = <<>> THEN [ret |-> None, iter |-> it, ovf |-> FALSE]
    ELSE IF i >= Capacity THEN [ret |-> None, iter |-> Tail(it), ovf |-> TRUE]
    ELSE LET d == [data EXCEPT ![i + 1] = Head(it)]
         IN  IF Head(it) = Bang
             THEN CopyCrc(d, i + 1, Tail(it), 4)
             ELSE CopyLoop(d, i + 1, Tail(it))

\* Reader::next
ReaderNextOf(it) ==
    LET p == Position(it)
    IN  IF p = None THEN [ret |-> None, iter |-> <<>>, ovf |-> FALSE]
        ELSE CopyLoop(Pad(<<Slash>>), 1, Drop(it, p[1] + 1))

\* One step of `for readout in reader`: the loop ends at the first None.
ReaderNext ==
    /\ sret # RetNone
    /\ LET r == ReaderNextOf(iter)
       IN  /\ iter' = r.iter
           /\ sovf' = (sovf \/ r.ovf)
           /\ IF r.ret = None
              THEN sret' = RetNone /\ sframes' = sframes
              ELSE sret' = RetSome(r.ret[1]) /\ sframes' = Append(sframes, r.ret[1])
    /\ UNCHANGED <<scanVars, funVars>>

-----------------------------------------------------------------------------
(* Readout::to_telegram *)

Ok(v) == [ok |-> TRUE, val |-> v]
Err(e) == [ok |-> FALSE, err |-> e]
\* res before the function is called
NotCalled == [ok |-> FALSE, err |-> "not called"]
\* A panic (unreachable!(), a slice off a character boundary): the process
\* aborts instead of returning; the call's outcome is recorded as this value,
\* which is no value of Error.
Panic == [ok |-> FALSE, err |-> "panic"]

\* a ^ b
Xor[a \in Nat, b \in Nat] ==
    IF a = 0 THEN b
    ELSE IF b = 0 THEN a
    ELSE (((a % 2) + (b % 2)) % 2) + 2 * Xor[a \div 2, b \div 2]

\* crc16::State::<crc16::ARC>: reflected, polynomial 0xA001, initial value 0.
\* k more bits of the current byte:
CrcShift[crc \in Nat, k \in Nat] ==
    IF k = 0 THEN crc
    ELSE CrcShift[IF crc % 2 = 1 THEN Xor[crc \div 2, 40961] ELSE crc \div 2, k - 1]

\* The CRC of the first n bytes.
RECURSIVE CrcUpTo(_, _)
CrcUpTo(bytes, n) ==
    IF n = 0 THEN 0
    ELSE CrcShift[Xor[CrcUpTo(bytes, n - 1), bytes[n]], 8]

Crc16Arc(bytes) == CrcUpTo(bytes, Len(bytes))

\* A UTF-8 continuation byte.
IsCont(b) == b >= 128 /\ b <= 191
ContAt(s, i, lo, hi) == i <= Len(s) /\ s[i] >= lo /\ s[i] <= hi

\* core::str::from_utf8(s).is_ok(), from byte i on
RECURSIVE Utf8From(_, _)
Utf8From(s, i) ==
    IF i > Len(s) THEN TRUE
    ELSE LET b == s[i]
         IN  IF b < 128 THEN Utf8From(s, i + 1)
             ELSE IF b >= 194 /\ b <= 223
             THEN ContAt(s, i + 1, 128, 191) /\ Utf8From(s, i + 2)
             ELSE IF b >= 224 /\ b <= 239
             THEN /\ ContAt(s, i + 1, IF b = 224 THEN 160 ELSE 128,
                                      IF b = 237 THEN 159 ELSE 191)
                  /\ ContAt(s, i + 2, 128, 191)
                  /\ Utf8From(s, i + 3)
             ELSE IF b >= 240 /\ b <= 244
             THEN /\ ContAt(s, i + 1, IF b = 240 THEN 144 ELSE 128,
                                      IF b = 244 THEN 143 ELSE 191)
                  /\ ContAt(s, i + 2, 128, 191)
                  /\ ContAt(s, i + 3, 128, 191)
                  /\ Utf8From(s, i + 4)
             ELSE FALSE

FromUtf8(s) == IF Utf8From(s, 1) THEN Ok(s) ELSE Err("Utf8Error")

\* str::is_char_boundary(i), i a 0-based byte offset
IsCharBoundary(s, i) ==
    \/ i = 0
    \/ i = Len(s)
    \/ i < Len(s) /\ ~IsCont(s[i + 1])

\* str::get(a..b): None off a character boundary or out of range
Get(s, a, b) ==
    IF a <= b /\ b <= Len(s) /\ IsCharBoundary(s, a) /\ IsCharBoundary(s, b)
    THEN Some(SubSeq(s, a + 1, b))
    ELSE None

\* str::find(pat): the 0-based offset of the first occurrence of pat
Find(s, pat) ==
    LET hits == {i \in 0..(Len(s) - Len(pat)) : SubSeq(s, i + 1, i + Len(pat)) = pat}
    IN  IF hits = {} THEN None
        ELSE Some(CHOOSE i \in hits : \A j \in hits : i <= j)

\* str::split_once(pat)
SplitOnce(s, pat) ==
    LET at == Find(s, pat)
    IN  IF at = None THEN None
        ELSE Some(<<Take(s, at[1]), Drop(s, at[1] + Len(pat))>>)

\* char::to_digit(16)
HexDigit(c) ==
    IF c >= 48 /\ c <= 57 THEN Some(c - 48)
    ELSE IF c >= 97 /\ c <= 102 THEN Some(c - 87)
    ELSE IF c >= 65 /\ c <= 70 THEN Some(c - 55)
    ELSE None

RECURSIVE HexValue(_, _, _)
HexValue(s, i, acc) ==
    IF i > Len(s) THEN (IF acc <= 65535 THEN Some(acc) ELSE None)
    ELSE IF HexDigit(s[i]) = None THEN None
    ELSE HexValue(s, i + 1, 16 * acc + HexDigit(s[i])[1])

\* u16::from_str_radix(s, 16): digits after an optional '+'
FromStrRadix16(s) ==
    IF s = <<>> THEN None
    ELSE IF s[1] = 43 THEN (IF Len(s) = 1 THEN None ELSE HexValue(s, 2, 0))
    ELSE HexValue(s, 1, 0)

CrLfCrLf == <<13, 10, 13, 10>>

\* to_telegram up to the parse of the transmitted checksum: the text through
\* the first '!' and the value of the 4 bytes after it.
ReceivedChecksum(readout) ==
    LET utf8 == FromUtf8(readout)
        end == Find(readout, <<Bang>>)
        text == Take(readout, end[1] + 1)
        postfix == Drop(readout, end[1] + 1)
        digits == Get(postfix, 0, 4)
        received == FromStrRadix16(digits[1])
    IN  IF ~utf8.ok THEN Err("InvalidFormat")
        ELSE IF end = None THEN Err("InvalidFormat")
        ELSE IF ~IsCharBoundary(readout, end[1] + 1) THEN Panic    \* split_at
        ELSE IF digits = None THEN Err("InvalidFormat")
        ELSE IF received = None THEN Err("InvalidFormat")
        ELSE Ok([text |-> text, received |-> received[1]])

\* str::rsplit_once(pat)
RSplitOnce(s, pat) ==
    LET hits == {i \in 0..(Len(s) - Len(pat)) : SubSeq(s, i + 1, i + Len(pat)) = pat}
        at == CHOOSE i \in hits : \A j \in hits : i >= j
    IN  IF hits = {} THEN None
        ELSE Some(<<Take(s, at), Drop(s, at + Len(pat))>>)

\* The header/body split made at the last "\r\n\r\n" instead of the first.
SplitHeaderLast(text) == RSplitOnce(text, CrLfCrLf)

\* buffer.split_once("\r\n\r\n")
SplitHeader(text) == SplitOnce(text, CrLfCrLf)

\* to_telegram after the checksum comparison: the Telegram's fields.
SplitTelegram(text, checksum) ==
    LET halves == SplitHeader(text)
        header == halves[1][1]
        body == halves[1][2]
        flag == Get(header, 1, 4)
        ident == Get(header, 5, Len(header))
        objects == Get(body, 0, Len(body) - 3)
    IN  IF halves = None THEN Err("InvalidFormat")
        ELSE IF flag = None THEN Err("InvalidFormat")
        ELSE IF ident = None THEN Err("InvalidFormat")
        ELSE IF Len(body) < 3 THEN Err("InvalidFormat")
        ELSE IF objects = None THEN Err("InvalidFormat")
        ELSE Ok([checksum |-> checksum,
                 flag_id |-> flag[1],
                 identification |-> ident[1],
                 object_buffer |-> objects[1]])

\* to_telegram splitting header and body before it compares the checksums.
ToTelegramSplitsFirst(readout) ==
    LET r == ReceivedChecksum(readout)
        checksum == Crc16Arc(r.val.text)
        t == SplitTelegram(r.val.text, checksum)
    IN  IF ~r.ok THEN r
        ELSE IF ~t.ok THEN t
        ELSE IF r.val.received # checksum THEN Err("Checksum")
        ELSE t

\* Readout::to_telegram
ToTelegram(readout) ==
    LET r == ReceivedChecksum(readout)
        checksum == Crc16Arc(r.val.text)
    IN  IF ~r.ok THEN r
        ELSE IF r.val.received # checksum THEN Err("Checksum")
        ELSE SplitTelegram(r.val.text, checksum)

\* readout.to_telegram() is called.
CallToTelegram ==
    /\ res = NotCalled
    /\ res' = ToTelegram(arg)
    /\ UNCHANGED <<arg, scanVars, syncVars>>

-----------------------------------------------------------------------------
(* obis.rs: Obis, Object::from_str and the value parsers.  A &str is the   *)
(* sequence of its (ASCII) characters; a u32 is the pair <<hi, lo>> of its *)
(* 16-bit halves, hi * 65536 + lo, so that no arithmetic leaves the range  *)
(* of TLC's 32-bit integers and overflow is decided as checked_mul and     *)
(* checked_add decide it.                                                  *)

IsDigit(c) == c >= 48 /\ c <= 57

\* u32::wrapping_mul in the place of checked_mul
WrappingMul(a, m) ==
    LET lo == a[2] * m
        hi == a[1] * m + (lo \div 65536)
    IN  Some(<<hi % 65536, lo % 65536>>)

\* u32::checked_mul by a small factor
CheckedMul(a, m) ==
    LET lo == a[2] * m
        hi == a[1] * m + (lo \div 65536)
    IN  IF hi >= 65536 THEN None ELSE Some(<<hi, lo % 65536>>)

\* u32::checked_add
CheckedAdd(a, b) ==
    LET lo == a[2] + b[2]
        hi == a[1] + b[1] + (lo \div 65536)
    IN  IF hi >= 65536 THEN None ELSE Some(<<hi, lo % 65536>>)

\* one digit of the decimal parse: acc * 10 + d, None on overflow
MulAdd32(acc, d) ==
    IF CheckedMul(acc, 10) = None THEN None
    ELSE CheckedAdd(CheckedMul(acc, 10)[1], <<0, d>>)

RECURSIVE Digits32(_, _, _)
Digits32(s, i, acc) ==
    IF i > Len(s) THEN Some(acc)
    ELSE IF ~IsDigit(s[i]) THEN None
    ELSE LET next == MulAdd32(acc, s[i] - 48)
         IN  IF next = None THEN None ELSE Digits32(s, i + 1, next[1])

\* str::parse::<u32>(): decimal digits after an optional '+'
ParseU32(s) ==
    IF s = <<>> THEN None
    ELSE IF s[1] = 43 THEN (IF Len(s) = 1 THEN None ELSE Digits32(s, 2, <<0, 0>>))
    ELSE Digits32(s, 1, <<0, 0>>)

RECURSIVE Digits8(_, _, _)
Digits8(s, i, acc) ==
    IF i > Len(s) THEN Some(acc)
    ELSE IF ~IsDigit(s[i]) THEN None
    ELSE IF acc * 10 + (s[i] - 48) > 255 THEN None
    ELSE Digits8(s, i + 1, acc * 10 + (s[i] - 48))

\* str::parse::<u8>()
ParseU8(s) ==
    IF s = <<>> THEN None
    ELSE IF s[1] = 43 THEN (IF Len(s) = 1 THEN None ELSE Digits8(s, 2, 0))
    ELSE Digits8(s, 1, 0)

\* str::split(c): the parts between the occurrences of c
RECURSIVE Split(_, _)
Split(s, c) ==
    LET at == Find(s, <<c>>)
    IN  IF at = None THEN <<s>>
        ELSE <<Take(s, at[1])>> \o Split(Drop(s, at[1] + 1), c)

\* Obis::from_str_opt
ObisFromStrOpt(s) ==
    LET first == SplitOnce(s, <<45>>)
        a == ParseU8(first[1][1])
        second == SplitOnce(first[1][2], <<58>>)
        b == ParseU8(second[1][1])
        parts == Split(second[1][2], 46)
        c == ParseU8(parts[1])
        d == ParseU8(parts[2])
        e == ParseU8(parts[3])
    IN  IF first = None THEN None
        ELSE IF a = None THEN None
        ELSE IF second = None THEN None
        ELSE IF b = None THEN None
        ELSE IF c = None THEN None
        ELSE IF Len(parts) < 2 THEN None
        ELSE IF d = None THEN None
        ELSE IF Len(parts) < 3 THEN None
        ELSE IF e = None THEN None
        ELSE Some(<<a[1], b[1], c[1], d[1], e[1]>>)

\* <Obis as FromStr>::from_str
ObisFromStr(s) ==
    IF ObisFromStrOpt(s) = None THEN Err("InvalidFormat") ELSE Ok(ObisFromStrOpt(s)[1])

\* split_value: the scalar and the unit of a value with a trailing parenthesis
SplitValue(s) ==
    IF Len(s) = 0 THEN None
    ELSE IF Get(s, 0, Len(s) - 1) = None THEN None
    ELSE SplitOnce(Get(s, 0, Len(s) - 1)[1], <<42>>)

\* 10u32.pow(F)
Pow10(f) == IF f = 0 THEN 1 ELSE IF f = 1 THEN 10 ELSE IF f = 2 THEN 100 ELSE 1000

\* parse_decimal::<F>
ParseDecimal(F, s) ==
    LET value == SplitValue(s)
        halves == RSplitOnce(value[1][1], <<46>>)
        i == ParseU32(halves[1][1])
        f == ParseU32(halves[1][2])
    IN  IF value = None THEN None
        ELSE IF halves = None THEN None
        ELSE IF Len(halves[1][2]) # F THEN None
        ELSE IF i = None THEN None
        ELSE IF f = None THEN None
        ELSE IF CheckedMul(i[1], Pow10(F)) = None THEN None
        ELSE CheckedAdd(CheckedMul(i[1], Pow10(F))[1], f[1])

\* parse_kilo
ParseKilo(s) ==
    IF ParseDecimal(3, s) = None THEN Err("InvalidFormat") ELSE Ok(ParseDecimal(3, s)[1])

\* parse_deci cutting the u32 down to its low 16 bits (v as u16).
ParseDeciTruncates(s) ==
    LET v == ParseDecimal(1, s)
    IN  IF v = None THEN Err("InvalidFormat") ELSE Ok(v[1][2])

\* parse_deci: the u32 must fit a u16
ParseDeci(s) ==
    LET v == ParseDecimal(1, s)
    IN  IF v = None THEN Err("InvalidFormat")
        ELSE IF v[1][1] # 0 THEN Err("InvalidFormat")
        ELSE Ok(v[1][2])

\* The power orders swapped: 2 read as reactive power from the grid.
PowDirSwapped(a) ==
    CASE a = 1 -> Ok(<<"Active", "FromGrid">>)
      [] a = 2 -> Ok(<<"Reactive", "FromGrid">>)
      [] a = 3 -> Ok(<<"Active", "ToGrid">>)
      [] a = 4 -> Ok(<<"Reactive", "ToGrid">>)
      [] OTHER -> Err("InvalidFormat")

\* pow_dir
PowDir(a) ==
    CASE a = 1 -> Ok(<<"Active", "FromGrid">>)
      [] a = 2 -> Ok(<<"Active", "ToGrid">>)
      [] a = 3 -> Ok(<<"Reactive", "FromGrid">>)
      [] a = 4 -> Ok(<<"Reactive", "ToGrid">>)
      [] OTHER -> Err("InvalidFormat")

\* time::util::days_in_year_month
IsLeapYear(y) == y % 4 = 0 /\ (y % 100 # 0 \/ y % 400 = 0)
DaysInMonth(y, m) ==
    IF m \in {4, 6, 9, 11} THEN 30
    ELSE IF m = 2 THEN (IF IsLeapYear(y) THEN 29 ELSE 28)
    ELSE 31

\* the two-character names "01" .. "12" of the months
MonthName(m) == <<48 + (m \div 10), 48 + (m % 10)>>

\* parse_datetime's closure parsetwo
ParseTwo(s, i) ==
    IF Get(s, i, i + 2) = None THEN None ELSE ParseU8(Get(s, i, i + 2)[1])

\* The offsets exchanged: +2 h for W and +1 h for S.
OffsetOfSwapped(dst) == IF dst = <<87>> THEN 2 ELSE 1

\* the match on s.get(12..=12): UtcOffset::from_hms(1, 0, 0) for "W", (2, 0, 0)
\* for "S"
OffsetOf(dst) == IF dst = <<87>> THEN 1 ELSE 2

\* parse_datetime: the local date and time and the UTC offset in hours
ParseDatetime(s) ==
    LET yy == ParseTwo(s, 0)
        year == yy[1] + 2000
        name == Get(s, 2, 4)
        months == {m \in 1..12 : MonthName(m) = name[1]}
        month == CHOOSE m \in months : TRUE
        day == ParseTwo(s, 4)
        hour == ParseTwo(s, 6)
        minute == ParseTwo(s, 8)
        second == ParseTwo(s, 10)
        dst == Get(s, 12, 13)
    IN  IF yy = None THEN Err("InvalidFormat")
        ELSE IF name = None THEN Err("InvalidFormat")
        ELSE IF months = {} THEN Err("InvalidFormat")
        ELSE IF day = None THEN Err("InvalidFormat")
        ELSE IF day[1] < 1 \/ day[1] > DaysInMonth(year, month) THEN Err("InvalidFormat")
        ELSE IF hour = None \/ minute = None \/ second = None THEN Err("InvalidFormat")
        ELSE IF hour[1] > 23 \/ minute[1] > 59 \/ second[1] > 59 THEN Err("InvalidFormat")
        ELSE IF dst = None THEN Err("InvalidFormat")
        ELSE IF dst[1] # <<87>> /\ dst[1] # <<83>> THEN Err("InvalidFormat")
        ELSE Ok([year |-> year, month |-> month, day |-> day[1],
                 hour |-> hour[1], minute |-> minute[1], second |-> second[1],
                 offset |-> OffsetOf(dst[1])])

\* The instant of an OffsetDateTime as its date and time at UTC
\* (OffsetDateTime::to_offset(UTC), by which two of them are compared).
ToUtc(dt) ==
    LET early == dt.hour < dt.offset
        first == early /\ dt.day = 1
        january == first /\ dt.month = 1
        year == IF january THEN dt.year - 1 ELSE dt.year
        month == IF january THEN 12 ELSE IF first THEN dt.month - 1 ELSE dt.month
    IN  [year |-> year, month |-> month,
         day |-> IF first THEN DaysInMonth(year, month)
                 ELSE IF early THEN dt.day - 1 ELSE dt.day,
         hour |-> IF early THEN dt.hour + 24 - dt.offset ELSE dt.hour - dt.offset,
         minute |-> dt.minute, second |-> dt.second]

\* parse_datetime(s) is called.
CallParseDatetime ==
    /\ res = NotCalled
    /\ res' = ParseDatetime(arg)
    /\ UNCHANGED <<arg, scanVars, syncVars>>

\* The first arm of the match reaching out to c = 0 and c = 5 as well.
IsTotalWide(c, d) == c \in 0..5 /\ d \in 7..8

\* The arm of the currents and voltages reaching out to c = 30, 33, 50, 53,
\* 70 and 73 as well.
IsLineDeciWide(c, d) == c \in (30..33) \cup (50..53) \cup (70..73) /\ d = 7

\* the patterns of the match on Obis(1, 0, c, d, 0)
IsTotal(c, d) == c \in 1..4 /\ d \in 7..8
IsLinePower(c, d) == c \in (21..24) \cup (41..44) \cup (61..64) /\ d = 7
IsLineDeci(c, d) == c \in (31..32) \cup (51..52) \cup (71..72) /\ d = 7

\* the match on c / 20
LineOf(n) == CASE n = 1 -> "L1" [] n = 2 -> "L2" [] n = 3 -> "L3"

\* the arms of the match, each with its inner matches, in the order the code
\* evaluates them, and the ? of its value parser
Total(c, d, body) ==
    LET pd == PowDir(c)
        v == ParseKilo(body)
    IN  IF ~pd.ok THEN pd
        ELSE IF d \notin {7, 8} THEN Panic
        ELSE IF ~v.ok THEN v
        ELSE Ok([kind |-> IF d = 7 THEN "TotalPower" ELSE "Energy",
                 pow |-> pd.val[1], dir |-> pd.val[2], value |-> v.val])

LinePower(c, body) ==
    LET pd == PowDir(c % 20)
        v == ParseKilo(body)
    IN  IF c \div 20 \notin {1, 2, 3} THEN Panic
        ELSE IF ~pd.ok THEN pd
        ELSE IF ~v.ok THEN v
        ELSE Ok([kind |-> "Power", line |-> LineOf(c \div 20),
                 pow |-> pd.val[1], dir |-> pd.val[2], value |-> v.val])

LineDeci(c, body) ==
    LET v == ParseDeci(body)
    IN  IF c \notin (31..32) \cup (51..52) \cup (71..72) THEN Panic
        ELSE IF c % 10 \notin {1, 2} THEN Panic
        ELSE IF ~v.ok THEN v
        ELSE Ok([kind |-> IF c % 10 = 1 THEN "Current" ELSE "Voltage",
                 line |-> CASE c \in 31..32 -> "L1"
                            [] c \in 51..52 -> "L2"
                            [] c \in 71..72 -> "L3",
                 value |-> v.val])

\* The values Object::from_str(s) calls pow_dir with: c in the arm of the
\* totals, c % 20 in the arm of the line powers once c / 20 has matched.
PowDirCalls(s) ==
    LET halves == SplitOnce(s, <<40>>)
        obis == ObisFromStr(halves[1][1])
        o == obis.val
    IN  IF halves = None THEN {}
        ELSE IF ~obis.ok THEN {}
        ELSE IF o = <<0, 0, 1, 0, 0>> THEN {}
        ELSE IF o[1] = 1 /\ o[2] = 0 /\ o[5] = 0 /\ IsTotal(o[3], o[4]) THEN {o[3]}
        ELSE IF o[1] = 1 /\ o[2] = 0 /\ o[5] = 0 /\ IsLinePower(o[3], o[4])
        THEN (IF o[3] \div 20 \in {1, 2, 3} THEN {o[3] % 20} ELSE {})
        ELSE {}

\* <Object as FromStr>::from_str
ObjectFromStr(s) ==
    LET halves == SplitOnce(s, <<40>>)
        obis == ObisFromStr(halves[1][1])
        body == halves[1][2]
        o == obis.val
    IN  IF halves = None THEN Err("InvalidFormat")
        ELSE IF ~obis.ok THEN obis
        ELSE IF o = <<0, 0, 1, 0, 0>>
        THEN (IF ParseDatetime(body).ok
              THEN Ok([kind |-> "DateTime", at |-> ParseDatetime(body).val])
              ELSE ParseDatetime(body))
        ELSE IF o[1] = 1 /\ o[2] = 0 /\ o[5] = 0 /\ IsTotal(o[3], o[4])
        THEN Total(o[3], o[4], body)
        ELSE IF o[1] = 1 /\ o[2] = 0 /\ o[5] = 0 /\ IsLinePower(o[3], o[4])
        THEN LinePower(o[3], body)
        ELSE IF o[1] = 1 /\ o[2] = 0 /\ o[5] = 0 /\ IsLineDeci(o[3], o[4])
        THEN LineDeci(o[3], body)
        ELSE Err("UnrecognizedReference")

\* line.parse::<Object>() is called.
CallObjectFromStr ==
    /\ res = NotCalled
    /\ res' = ObjectFromStr(arg)
    /\ UNCHANGED <<arg, scanVars, syncVars>>

-----------------------------------------------------------------------------
(* Specifications *)

InitScan(s, end) ==
    /\ input = s
    /\ rest = s
    /\ eof = end
    /\ buffer = None
    /\ pc = "ready"
    /\ ret = Pending
    /\ frames = <<>>
    /\ cur = <<>>
    /\ ev = "new"
    /\ hist = [cancel |-> FALSE, midCrc |-> FALSE, overflow |-> FALSE]

InitSync(s) ==
    /\ iter = s
    /\ sframes = <<>>
    /\ sret = Pending
    /\ sovf = FALSE

InitFun(a) ==
    /\ arg = a
    /\ res = NotCalled

\* A finite stream read through AsyncReader, the caller abandoning calls at will.
Init == \E s \in SeqsUpTo(Alphabet, MaxLen) : InitScan(s, TRUE) /\ InitSync(<<>>) /\ InitFun(<<>>)

Next ==
    \/ Call /\ UNCHANGED <<syncVars, funVars>>
    \/ ScanToNext /\ UNCHANGED <<syncVars, funVars>>
    \/ FillBuffer /\ UNCHANGED <<syncVars, funVars>>
    \/ Cancel /\ UNCHANGED <<syncVars, funVars>>

Spec == Init /\ [][Next]_vars

\* A finite stream read through AsyncReader by a caller that awaits every call,
\* the source delivering it in chunks of any sizes.
NextChunks ==
    \/ Call /\ UNCHANGED <<syncVars, funVars>>
    \/ ScanToNext /\ UNCHANGED <<syncVars, funVars>>
    \/ FillBuffer /\ UNCHANGED <<syncVars, funVars>>

SpecChunks == Init /\ [][NextChunks]_vars

\* An endless stream: bytes reach the source while AsyncReader reads, and the
\* caller lets go of each readout before its next call.
InitStream == InitScan(<<>>, FALSE) /\ InitSync(<<>>) /\ InitFun(<<>>)

NextStream ==
    \/ Feed /\ UNCHANGED <<syncVars, funVars>>
    \/ CallStreaming /\ UNCHANGED <<syncVars, funVars>>
    \/ ScanToNext /\ UNCHANGED <<syncVars, funVars>>
    \/ FillBuffer /\ UNCHANGED <<syncVars, funVars>>

SpecStream == InitStream /\ [][NextStream]_vars

\* The same finite stream read through AsyncReader and through Reader.
InitBoth ==
    \E s \in SeqsUpTo(Alphabet, MaxLen) : InitScan(s, TRUE) /\ InitSync(s) /\ InitFun(<<>>)

NextBoth ==
    \/ Call /\ UNCHANGED <<syncVars, funVars>>
    \/ ScanToNext /\ UNCHANGED <<syncVars, funVars>>
    \/ FillBuffer /\ UNCHANGED <<syncVars, funVars>>
    \/ ReaderNext

SpecBoth == InitBoth /\ [][NextBoth]_vars

\* A finite input iterated through Reader to its first None.
\* Its inputs: any stream of up to MaxLen bytes, alone or behind a first frame.
FirstFrames ==
    { <<>>,
      <<47, 33, 120, 47, 33, 120>>,      \* "/!x/!x"
      <<120, 47, 120, 33, 47, 33, 33, 120>> }     \* "x/x!/!!x"
InitReader ==
    \E f \in FirstFrames, s \in SeqsUpTo(Alphabet, MaxLen) :
        InitSync(f \o s) /\ InitScan(<<>>, TRUE) /\ InitFun(<<>>)

NextReader == ReaderNext

SpecReader == InitReader /\ [][NextReader]_vars

\* The readouts to_telegram is applied to: a header (a prefix of "/ELL5\253",
\* plain, with a two-byte character in it, or with a byte that is not UTF-8),
\* a separator, a body, '!' or not, and 4 checksum bytes, in a zeroed buffer.
SampleHeader == <<47, 69, 76, 76, 53, 92, 50, 53, 51>>
Headers ==
    LET plain == {Take(SampleHeader, n) : n \in 0..HeaderMax}
        wide(h, k) == [i \in 1..Len(h) |->
                          IF i = k THEN 195 ELSE IF i = k + 1 THEN 165 ELSE h[i]]
    IN  plain
        \cup {wide(h, k) : h \in {Take(SampleHeader, HeaderMax)}, k \in 2..(HeaderMax - 1)}
        \cup {[Take(SampleHeader, HeaderMax) EXCEPT ![3] = 255]}
Separators == {<<>>, <<13, 10>>, CrLfCrLf}
Bodies ==
    {Drop(<<65, 13, 10, 66, 13, 10>>, k) : k \in 0..6}
    \cup {<<195, 165, 10>>, <<195, 165, 13, 10>>, <<13, 10, 13, 10, 13, 10>>}

RECURSIVE HexString(_, _)
HexString(n, width) ==
    IF width = 0 THEN <<>>
    ELSE LET d == n % 16
         IN  Append(HexString(n \div 16, width - 1), IF d < 10 THEN 48 + d ELSE 55 + d)
Lower(s) == [i \in 1..Len(s) |-> IF s[i] >= 65 /\ s[i] <= 90 THEN s[i] + 32 ELSE s[i]]

\* The 4 bytes a frame may carry after its '!', given the CRC of its text.
Trailers(crc) ==
    {HexString(crc, 4), Lower(HexString(crc, 4)), HexString((crc + 1) % 65536, 4),
     <<43>> \o HexString(crc % 4096, 3), <<49, 50, 71, 52>>, <<0, 0, 0, 0>>,
     <<49, 50, 51, 195, 165>>}

PadTo(s, n) == [i \in 1..n |-> IF i <= Len(s) THEN s[i] ELSE 0]

Readouts ==
    LET texts == {h \o sp \o b : h \in Headers, sp \in Separators, b \in Bodies}
    IN  {PadTo(t, ReadoutLen) : t \in texts}
        \cup UNION {{PadTo(t \o <<Bang>> \o c, ReadoutLen) :
                        c \in Trailers(Crc16Arc(Append(t, Bang)))} : t \in texts}

\* to_telegram applied to a readout.
InitTelegram == \E r \in Readouts : InitFun(r) /\ InitScan(<<>>, TRUE) /\ InitSync(<<>>)

NextTelegram == CallToTelegram

SpecTelegram == InitTelegram /\ [][NextTelegram]_vars

\* <u8 as Display>::fmt
Dec(n) ==
    IF n < 10 THEN <<48 + n>>
    ELSE IF n < 100 THEN <<48 + (n \div 10), 48 + (n % 10)>>
    ELSE <<48 + (n \div 100), 48 + ((n \div 10) % 10), 48 + (n % 10)>>

\* Display writing a '.' where the ':' belongs: a-b.c.d.e
ObisDisplayDots(o) ==
    Dec(o[1]) \o <<45>> \o Dec(o[2]) \o <<46>> \o Dec(o[3]) \o <<46>> \o Dec(o[4])
        \o <<46>> \o Dec(o[5])

\* <Obis as Display>::fmt: a-b:c.d.e
ObisDisplay(o) ==
    Dec(o[1]) \o <<45>> \o Dec(o[2]) \o <<58>> \o Dec(o[3]) \o <<46>> \o Dec(o[4])
        \o <<46>> \o Dec(o[5])

\* The identifiers tried: every entry of the decode table and its neighbours.
ObisCs ==
    (0..5) \cup (20..25) \cup (30..33) \cup (40..45) \cup (50..53) \cup (60..65)
        \cup (70..73) \cup {99, 255}
ObisTuples ==
    {<<a, b, c, d, e>> : a \in 0..1, b \in 0..1, c \in ObisCs, d \in {0, 6, 7, 8, 9},
                         e \in 0..1}

\* Bodies, the text after the '(': the examples of the meter and malformed ones.
SampleBodies ==
    { <<50, 50, 49, 48, 50, 50, 49, 54, 50, 56, 52, 52, 87, 41>>,      \* "221022162844W)"
      <<50, 50, 48, 55, 49, 55, 50, 51, 49, 54, 52, 56, 83, 41>>,      \* "220717231648S)"
      <<50, 50, 48, 50, 51, 48, 49, 50, 48, 48, 48, 48, 87, 41>>,      \* "220230120000W)"
      <<48, 48, 48, 48, 54, 49, 51, 54, 46, 57, 51, 48, 42, 107, 87, 104, 41>>,      \* "00006136.930*kWh)"
      <<48, 48, 48, 48, 46, 56, 48, 54, 42, 107, 87, 41>>,      \* "0000.806*kW)"
      <<50, 51, 53, 46, 53, 42, 86, 41>>,      \* "235.5*V)"
      <<48, 48, 49, 46, 50, 42, 65, 41>>,      \* "001.2*A)"
      <<48, 48, 48, 48, 46, 56, 48, 54, 107, 87, 41>>,      \* "0000.806kW)"
      <<48, 56, 48, 54, 42, 107, 87, 41>>,      \* "0806*kW)"
      <<120, 41>>,      \* "x)"
      <<41>>, <<>> }

\* Prefixes that are not the Display of a tuple, each before "(" and a body.
OddPrefixes ==
    { <<49, 45, 48, 58, 57, 57, 46, 55, 46, 48, 46, 49>>,      \* "1-0:99.7.0.1"
      <<49, 45, 48, 58, 49, 46, 56, 46, 48, 46, 57>>,      \* "1-0:1.8.0.9"
      <<48, 49, 45, 48, 48, 58, 48, 48, 49, 46, 48, 56, 46, 48, 48, 48>>,      \* "01-00:001.08.000"
      <<43, 49, 45, 48, 58, 49, 46, 56, 46, 48>>,      \* "+1-0:1.8.0"
      <<49, 45, 48, 58, 49, 46, 56>>,      \* "1-0:1.8"
      <<49, 95, 48, 58, 49, 46, 56, 46, 48>>,      \* "1_0:1.8.0"
      <<50, 53, 54, 45, 48, 58, 49, 46, 56, 46, 48>>,      \* "256-0:1.8.0"
      <<49, 45, 48, 58, 49, 46, 45, 56, 46, 48>>,      \* "1-0:1.-8.0"
      <<>> }

\* Digit strings of the widths around the layouts' I and F.
Repeat(c, n) == [i \in 1..n |-> c]
ZeroPadded(digits, n) == Repeat(48, n - Len(digits)) \o digits
IntegerParts ==
    UNION {{Repeat(48, w), Repeat(57, w), ZeroPadded(<<50, 51, 53>>, w)} : w \in 2..9}
        \cup {ZeroPadded(d, w) : d \in {<<54, 49, 51, 54>>, <<52, 50, 57, 52, 57, 54, 55>>, <<52, 50, 57, 52, 57, 54, 56>>}, w \in 7..9}
FractionParts ==
    UNION {{Repeat(48, w), Repeat(57, w)} : w \in 0..4}
        \cup {<<53>>, <<50, 57, 53>>, <<50, 57, 54>>, <<57, 51, 48>>}
Magnitudes ==
    {i \o <<46>> \o f \o <<42, 107, 87, 104, 41>> : i \in IntegerParts, f \in FractionParts}
\* One identifier of each arm that parses a magnitude.
MagnitudeTuples ==
    {<<1, 0, 1, 8, 0>>, <<1, 0, 4, 8, 0>>, <<1, 0, 1, 7, 0>>, <<1, 0, 42, 7, 0>>,
     <<1, 0, 31, 7, 0>>, <<1, 0, 72, 7, 0>>}

ObjectLines ==
    {ObisDisplay(o) \o <<40>> \o b : o \in ObisTuples, b \in SampleBodies}
        \cup {ObisDisplay(o) \o <<40>> \o m : o \in MagnitudeTuples, m \in Magnitudes}
        \cup {p \o <<40>> \o b : p \in OddPrefixes, b \in {<<48, 48, 48, 48, 54, 49, 51, 54, 46, 57, 51, 48, 42, 107, 87, 104, 41>>, <<120, 41>>}}
        \cup {ObisDisplay(o) : o \in MagnitudeTuples}

\* Object::from_str applied to a line.
InitObject == \E l \in ObjectLines : InitFun(l) /\ InitScan(<<>>, TRUE) /\ InitSync(<<>>)

NextObject == CallObjectFromStr

SpecObject == InitObject /\ [][NextObject]_vars

\* obis.to_string().parse::<Obis>() is called.
CallRoundTrip ==
    /\ res = NotCalled
    /\ res' = ObisFromStr(ObisDisplay(arg))
    /\ UNCHANGED <<arg, scanVars, syncVars>>

\* The values of a component: the ends of the range of a u8 and the values
\* at which its Display gains a digit.
ComponentValues == {0, 1, 9, 10, 99, 100, 255}
Components ==
    {<<a, b, c, d, e>> : a \in ComponentValues, b \in ComponentValues,
                         c \in ComponentValues, d \in ComponentValues,
                         e \in ComponentValues}

\* An Obis formatted and parsed again.
InitRoundTrip == \E o \in Components : InitFun(o) /\ InitScan(<<>>, TRUE) /\ InitSync(<<>>)

NextRoundTrip == CallRoundTrip

SpecRoundTrip == InitRoundTrip /\ [][NextRoundTrip]_vars

\* Timestamps: every combination of the two-digit fields below, valid and
\* invalid, before each ending; and bodies that are not 12 digits.
TwoDigits(S) == {<<48 + (n \div 10), 48 + (n % 10)>> : n \in S}
Endings == {<<87, 41>>, <<83, 41>>, <<88, 41>>, <<119, 41>>, <<87>>, <<>>}
OddTimestamps ==
    { <<50, 50, 49, 48, 43, 49, 49, 54, 50, 56, 52, 52, 87, 41>>,      \* "2210+1162844W)"
      <<43, 53, 49, 48, 50, 50, 49, 54, 50, 56, 52, 52, 83, 41>>,      \* "+51022162844S)"
      <<50, 50, 43, 49, 48, 50, 50, 49, 54, 50, 56, 52, 52, 87, 41>>,      \* "22+1022162844W)"
      <<50, 50, 49, 48, 50, 50, 43, 54, 43, 56, 43, 52, 87, 41>>,      \* "221022+6+8+4W)"
      <<50, 50, 49, 48, 50, 50, 49, 54, 50, 56, 45, 52, 87, 41>>,      \* "2210221628-4W)"
      <<50, 50, 49, 48, 50, 50, 49, 54, 50, 56, 52, 32, 87, 41>>,      \* "22102216284 W)"
      <<50, 50, 49, 48, 50, 50, 49, 54, 50, 56, 195, 169, 87, 41>>,      \* "2210221628", U+00E9, "W)"
      <<50, 50, 49, 48, 50, 50, 49, 54, 50, 56, 52, 195, 169, 87, 41>>,      \* "22102216284", U+00E9, "W)"
      <<57, 57, 57, 57, 57, 57, 57, 57, 57, 57, 87>>,      \* "9999999999W"
      <<97, 97, 97, 97, 97, 97>>,      \* "aaaaaa"
      <<50, 50, 48, 55, 49, 55, 50, 51, 49, 54, 52, 56>> }     \* "220717231648"
Timestamps ==
    {yy \o mo \o dd \o hh \o mi \o ss \o z :
        yy \in TwoDigits({0, 22, 24, 99}), mo \in TwoDigits({0, 1, 2, 3, 4, 12, 13}),
        dd \in TwoDigits({0, 1, 28, 29, 30, 31, 32}), hh \in TwoDigits({0, 1, 23, 24}),
        mi \in TwoDigits({0, 59, 60}), ss \in TwoDigits({0, 59, 60}), z \in Endings}
        \cup OddTimestamps

\* parse_datetime applied to a body.
InitDatetime == \E t \in Timestamps : InitFun(t) /\ InitScan(<<>>, TRUE) /\ InitSync(<<>>)

NextDatetime == CallParseDatetime

SpecDatetime == InitDatetime /\ [][NextDatetime]_vars

\* s.parse::<Obis>() is called.
CallObisFromStr ==
    /\ res = NotCalled
    /\ res' = ObisFromStr(arg)
    /\ UNCHANGED <<arg, scanVars, syncVars>>

\* Strings given to Obis::from_str: the Display of identifiers, and each of
\* them with something added, removed or replaced.
Spoiled(s) ==
    { s,
      s \o <<46, 57>>,      \* an extra component
      s \o <<46, 120>>,
      s \o <<46>>,
      s \o <<120>>,
      s \o <<32>>,
      <<43>> \o s,      \* a sign
      <<32>> \o s,
      <<48>> \o s,      \* a leading zero
      Take(s, Len(s) - 1),
      Take(s, Len(s) - 2),      \* a component short
      Drop(s, 1),
      Drop(s, 2),
      [i \in 1..Len(s) |-> IF s[i] = 58 THEN 46 ELSE s[i]],      \* '.' for ':'
      [i \in 1..Len(s) |-> IF s[i] = 46 THEN 58 ELSE s[i]],      \* ':' for '.'
      [i \in 1..Len(s) |-> IF s[i] = 45 THEN 43 ELSE s[i]],      \* '+' for '-'
      [i \in 1..Len(s) |-> IF s[i] = 48 THEN 120 ELSE s[i]] }     \* 'x' for '0'
ObisStrings ==
    UNION {Spoiled(ObisDisplay(o)) : o \in ObisTuples}
        \cup OddPrefixes
        \cup { <<49, 45, 48, 58, 49, 46, 43, 56, 46, 48>>, <<49, 45, 48, 58, 50, 53, 54, 46, 56, 46, 48>>, <<49, 45, 48, 58, 49, 46, 56, 46, 50, 53, 53>>,
               <<49, 45, 48, 58, 49, 46, 56, 46, 48, 46>>, <<49, 45, 48, 58, 49, 46, 46, 48>>, <<49, 45, 45, 48, 58, 49, 46, 56, 46, 48>>,
               <<49, 45, 48, 58, 58, 49, 46, 56, 46, 48>>, <<45, 48, 58, 49, 46, 56, 46, 48>>, <<49, 45, 48, 58, 49, 46, 56, 46, 48, 40>> }

\* Obis::from_str applied to a string.
InitObis == \E s \in ObisStrings : InitFun(s) /\ InitScan(<<>>, TRUE) /\ InitSync(<<>>)

NextObis == CallObisFromStr

SpecObis == InitObis /\ [][NextObis]_vars

\* The two fuzz targets: a line parsed as an Object, and a byte stream read
\* through the scanners with to_telegram applied to the readouts they yield.
\* Their streams: a frame whose 4 bytes after the '!' are its checksum or
\* not, or a frame that is not UTF-8, or none, and up to TailLen more bytes.
TailLen == 2
DecodeFrames ==
    UNION {{t \o c : c \in Trailers(Crc16Arc(t))} :
              t \in {<<Slash, Bang>>, <<Slash, 120, Bang>>}}
        \cup {<<Slash, 195, Bang, 48, 48, 48, 48>>}
DecodeStreams ==
    {f \o s : f \in DecodeFrames \cup {<<>>}, s \in SeqsUpTo(Alphabet, TailLen)}

\* The readouts of ReadoutLen bytes that a scanner yields: a '/', the bytes
\* through the first '!', 4 more bytes, and zeroes.
ScannerReadouts ==
    {r \in Readouts :
        /\ r[1] = Slash
        /\ \E p \in 2..(ReadoutLen - 4) :
               /\ r[p] = Bang
               /\ \A i \in 1..(p - 1) : r[i] # Bang
               /\ \A i \in (p + 5)..ReadoutLen : r[i] = 0}

\* A run decodes a line, or a readout of ReadoutLen bytes, or reads a stream
\* through both scanners and decodes the readouts of Capacity bytes they yield.
InitDecode ==
    \/ \E l \in ObjectLines : InitFun(l) /\ InitScan(<<>>, TRUE) /\ InitSync(<<>>)
    \/ \E r \in ScannerReadouts : InitFun(r) /\ InitScan(<<>>, TRUE) /\ InitSync(<<>>)
    \/ \E s \in DecodeStreams : InitFun(<<>>) /\ InitScan(s, TRUE) /\ InitSync(s)

\* readout.to_telegram() is called on a readout a scanner has yielded: on the
\* bytes of its buffer, one by one.
DecodeReadout ==
    /\ \E f \in {frames[i] : i \in DOMAIN frames} \cup {sframes[i] : i \in DOMAIN sframes}
                \cup (IF ret[1] = "some" THEN {ret[2]} ELSE {}) :
           res' = ToTelegram([i \in 1..Len(f) |-> f[i]])
    /\ UNCHANGED <<arg, scanVars, syncVars>>

NextDecode ==
    \/ Call /\ UNCHANGED <<syncVars, funVars>>
    \/ ScanToNext /\ UNCHANGED <<syncVars, funVars>>
    \/ FillBuffer /\ UNCHANGED <<syncVars, funVars>>
    \/ ReaderNext
    \/ DecodeReadout
    \/ arg \in ScannerReadouts /\ CallToTelegram
    \/ arg \notin ScannerReadouts /\ CallObjectFromStr

SpecDecode == InitDecode /\ [][NextDecode]_vars

-----------------------------------------------------------------------------
(* The run in which every fill_buf returns all the bytes that are left and *)
(* no call is abandoned: the readouts of calling next_readout until None.  *)

RECURSIVE RunWhole(_, _, _)
RunWhole(bytes, b, out) ==
    IF bytes = <<>> THEN out
    ELSE IF b = None
    THEN IF Position(bytes) = None THEN out
         ELSE RunWhole(Drop(bytes, Position(bytes)[1]), Some(BufferNew), out)
    ELSE LET r == Fill(b[1], bytes)
         IN  RunWhole(Drop(bytes, r.consume), r.buffer,
                      IF r.outcome = "yield" THEN Append(out, r.readout[1]) ELSE out)

WholeFrames(bytes) == RunWhole(bytes, None, <<>>)

\* The readouts returned so far, the one the caller has not stored yet included.
Returned == IF ret[1] = "some" THEN Append(frames, ret[2]) ELSE frames
\* next_readout has returned None.
Ended == pc = "ready" /\ ret = RetNone

IsPrefix(s, t) == Len(s) <= Len(t) /\ s = Take(t, Len(s))

-----------------------------------------------------------------------------
(* C1: next_readout is cancel-safe: whatever pending calls the caller      *)
(* abandons at their await of fill_buf, and however the source chunks the  *)
(* stream, the readouts returned are those of the run with no cancellation,*)
(* in the same order, none missing and none twice: at every moment a       *)
(* prefix of them, and all of them once None is returned.                  *)
C1_CancelSafe ==
    /\ IsPrefix(Returned, WholeFrames(input))
    /\ Ended => frames = WholeFrames(input)

\* A run that ended with a readout although a call was abandoned mid-frame.
C1_Witness == Ended /\ hist.cancel /\ Len(frames) >= 1

(* C2: with no call abandoned, the readouts of a finite stream are the     *)
(* same whether the source delivers it in one chunk or in any sequence of  *)
(* non-empty chunks.                                                       *)
C2_ChunkingIrrelevant == Ended => frames = WholeFrames(input)

\* A run that returned a readout after a suspension inside its checksum bytes.
C2_Witness == Ended /\ hist.midCrc /\ Len(frames) >= 1

(* C3: a frame that needs more than the buffer's capacity is never        *)
(* returned: the step that finds no room for a byte returns nothing, leaves*)
(* the reader Idle and has consumed exactly capacity bytes of that frame,  *)
(* so that the byte that did not fit is the next one scanned for a '/';    *)
(* while Idle the reader consumes no '/', and every readout returned is    *)
(* exactly the source bytes from the '/' it started at, in a zeroed buffer.*)
C3_OverflowState ==
    /\ ev = "overflow" =>
          /\ buffer = None /\ pc = "scan" /\ ret = Pending
          /\ Len(cur) = Capacity
          /\ rest # <<>>
    /\ ev = "yield" =>
          /\ rest # <<>> /\ Len(cur) < Capacity
          /\ ret = RetSome(Pad(Append(cur, Head(rest))))
          /\ Head(Append(cur, Head(rest))) = Slash

C3_IdleKeepsSlash ==
    (pc = "scan" /\ Len(rest') < Len(rest)) =>
        \A i \in 1..(Len(rest) - Len(rest')) : rest[i] # Slash

C3_OverflowDiscards == []C3_OverflowState /\ [][C3_IdleKeepsSlash]_vars

\* A readout returned after an earlier frame was given up for lack of room.
C3_Witness == hist.overflow /\ ev = "yield"

(* C4: for a finite stream in which neither scanner runs out of buffer,    *)
(* Reader iterated to its first None and next_readout called until None    *)
(* return the same readouts.                                               *)
C4_SameAsReader ==
    (Ended /\ sret = RetNone /\ ~hist.overflow /\ ~sovf) => frames = sframes

-----------------------------------------------------------------------------
(* A readout described from its bytes: the text through the first '!', the *)
(* 4 bytes after it, and the two sides of the first "\r\n\r\n".            *)

HasBang(b) == \E i \in 1..Len(b) : b[i] = Bang
FirstBang(b) == CHOOSE i \in 1..Len(b) : b[i] = Bang /\ \A j \in 1..(i - 1) : b[j] # Bang
TextOf(b) == Take(b, FirstBang(b))
TrailerOf(b) == SubSeq(b, FirstBang(b) + 1, FirstBang(b) + 4)

IsHexChar(c) == c \in (48..57) \cup (65..70) \cup (97..102)
HexVal(c) == IF c <= 57 THEN c - 48 ELSE IF c <= 70 THEN c - 55 ELSE c - 87
FourHexDigits(t) == Len(t) = 4 /\ \A i \in 1..4 : IsHexChar(t[i])
\* what u16::from_str_radix(_, 16) accepts of 4 bytes: 4 hex digits, or '+' and 3
ParsesAsU16(t) ==
    /\ Len(t) = 4
    /\ \A i \in 2..4 : IsHexChar(t[i])
    /\ IsHexChar(t[1]) \/ t[1] = 43
Transmitted(t) ==
    (IF t[1] = 43 THEN 0 ELSE 4096 * HexVal(t[1]))
        + 256 * HexVal(t[2]) + 16 * HexVal(t[3]) + HexVal(t[4])

HasSep(t) == \E i \in 1..(Len(t) - 3) : SubSeq(t, i, i + 3) = CrLfCrLf
SepAt(t) ==
    CHOOSE i \in 1..(Len(t) - 3) :
        /\ SubSeq(t, i, i + 3) = CrLfCrLf
        /\ \A j \in 1..(i - 1) : SubSeq(t, j, j + 3) # CrLfCrLf
HeaderOf(t) == Take(t, SepAt(t) - 1)
BodyOf(t) == Drop(t, SepAt(t) + 3)

\* The claim's "structurally well-formed".
WellFormed(b) ==
    /\ HasBang(b)
    /\ FourHexDigits(TrailerOf(b))
    /\ HasSep(TextOf(b))
    /\ Len(HeaderOf(TextOf(b))) >= 5
    /\ Len(BodyOf(TextOf(b))) >= 3

\* The checksum can be compared: the readout is UTF-8, has a '!' and 4 bytes
\* after it that parse.
Comparable(b) == Utf8From(b, 1) /\ HasBang(b) /\ ParsesAsU16(TrailerOf(b))
Matches(b) == Comparable(b) /\ Transmitted(TrailerOf(b)) = Crc16Arc(TextOf(b))

\* Header and body can be cut: there is a "\r\n\r\n", at least 5 header bytes
\* and 3 body bytes, and no cut falls inside a multi-byte character.
Framed(b) ==
    /\ HasSep(TextOf(b))
    /\ LET h == HeaderOf(TextOf(b))
           y == BodyOf(TextOf(b))
       IN  /\ Len(h) >= 5 /\ Len(y) >= 3
           /\ ~IsCont(h[2]) /\ ~IsCont(h[5])
           /\ Len(h) > 5 => ~IsCont(h[6])
           /\ ~IsCont(y[Len(y) - 2])

ExpectedTelegram(b) ==
    LET h == HeaderOf(TextOf(b))
        y == BodyOf(TextOf(b))
    IN  [checksum |-> Crc16Arc(TextOf(b)),
         flag_id |-> SubSeq(h, 2, 4),
         identification |-> SubSeq(h, 6, Len(h)),
         object_buffer |-> SubSeq(y, 1, Len(y) - 3)]

(* C5 as claimed: to_telegram returns Error::Checksum only for a           *)
(* structurally well-formed frame ('!' and 4 hex digits, a double CRLF, a  *)
(* header of at least 5 bytes, a body of at least 3) whose CRC differs from*)
(* the transmitted one, and Error::InvalidFormat for every frame with a    *)
(* structural violation, whatever its checksum bytes.                      *)
C5_NeverConflated ==
    res # NotCalled =>
        /\ res = Err("Checksum") =>
              (WellFormed(arg) /\ Transmitted(TrailerOf(arg)) # Crc16Arc(TextOf(arg)))
        /\ ~WellFormed(arg) => res = Err("InvalidFormat")

(* C5 as amended: the checksum is compared before header and body are      *)
(* split.  to_telegram returns Error::Checksum exactly when the readout is *)
(* UTF-8, has a '!', the 4 bytes after the first '!' parse as a base-16    *)
(* u16 (4 hex digits, or '+' and 3) and the value differs from the CRC over*)
(* the bytes through that '!'; invalid UTF-8, no '!' or unparsable         *)
(* checksum bytes give InvalidFormat; a missing double CRLF or a short     *)
(* header or body gives InvalidFormat only when the checksum matches.      *)
C5_ChecksumBeforeStructure ==
    res # NotCalled =>
        /\ ~Comparable(arg) => res = Err("InvalidFormat")
        /\ Comparable(arg) => (res = Err("Checksum") <=> ~Matches(arg))
        /\ (Matches(arg) /\ ~Framed(arg)) => res = Err("InvalidFormat")

\* Error::Checksum returned for a frame that has no double CRLF.
C5_Witness ==
    /\ res = Err("Checksum")
    /\ ~HasSep(TextOf(arg))

(* C6 as claimed: whenever the transmitted checksum equals the CRC over    *)
(* the bytes through the first '!', to_telegram returns a Telegram with    *)
(* that CRC, flag_id = header[1..4), identification = header[5..) and the  *)
(* body minus its last 3 bytes, header and body being the two sides of the *)
(* first "\r\n\r\n".                                                       *)
C6_FieldsOnMatch ==
    (res # NotCalled /\ Matches(arg)) =>
        (res.ok /\ res.val = ExpectedTelegram(arg))

(* C6 as amended: when the checksum matches, to_telegram returns that      *)
(* Telegram provided the text has a "\r\n\r\n", the header before the first*)
(* one has at least 5 bytes, the body after it at least 3 and no cut falls *)
(* inside a multi-byte character; otherwise it returns InvalidFormat.      *)
C6_FieldsWhenFramed ==
    (res # NotCalled /\ Matches(arg)) =>
        IF Framed(arg) THEN res = Ok(ExpectedTelegram(arg))
        ELSE res = Err("InvalidFormat")

\* A Telegram returned, with an identification and objects, from a text that
\* holds more than one "\r\n\r\n".
C6_Witness ==
    /\ res.ok
    /\ Len(res.val.identification) > 0
    /\ Len(res.val.object_buffer) > 0
    /\ HasSep(BodyOf(TextOf(arg)))

-----------------------------------------------------------------------------
(* The decode table and the layouts of the magnitudes, as the              *)
(* specification states them, and a line taken apart without the decoder.  *)

Called == res # NotCalled
Failed(e) == Called /\ ~res.ok /\ res.err = e

\* The identifiers whose Display, followed by '(', begins the line.
Shown(line) == {o \in ObisTuples : IsPrefix(ObisDisplay(o) \o <<40>>, line)}
ObjectBody(o, line) == Drop(line, Len(ObisDisplay(o)) + 1)

KindDir(n) ==
    CASE n = 1 -> <<"Active", "FromGrid">>
      [] n = 2 -> <<"Active", "ToGrid">>
      [] n = 3 -> <<"Reactive", "FromGrid">>
      [] n = 4 -> <<"Reactive", "ToGrid">>
LineName(n) == CASE n = 1 -> "L1" [] n = 2 -> "L2" [] n = 3 -> "L3"

\* The entry of the table for an identifier; of kind "none" if there is none.
Entry(o) ==
    LET c == o[3]
        d == o[4]
        one == o[1] = 1 /\ o[2] = 0 /\ o[5] = 0
    IN  IF o = <<0, 0, 1, 0, 0>> THEN [kind |-> "DateTime"]
        ELSE IF one /\ c \in 1..4 /\ d \in {7, 8}
        THEN [kind |-> IF d = 7 THEN "TotalPower" ELSE "Energy",
              pow |-> KindDir(c)[1], dir |-> KindDir(c)[2]]
        ELSE IF one /\ c \in (21..24) \cup (41..44) \cup (61..64) /\ d = 7
        THEN [kind |-> "Power", line |-> LineName(c \div 20),
              pow |-> KindDir(c % 20)[1], dir |-> KindDir(c % 20)[2]]
        ELSE IF one /\ c \in {31, 32, 51, 52, 71, 72} /\ d = 7
        THEN [kind |-> IF c % 10 = 1 THEN "Current" ELSE "Voltage",
              line |-> IF c <= 32 THEN "L1" ELSE IF c <= 52 THEN "L2" ELSE "L3"]
        ELSE [kind |-> "none"]

\* The object decoded is of the entry's variant, with its line, kind of power
\* and direction.
Agrees(v, e) ==
    /\ v.kind = e.kind
    /\ e.kind \in {"TotalPower", "Energy", "Power"} => v.pow = e.pow /\ v.dir = e.dir
    /\ e.kind \in {"Power", "Current", "Voltage"} => v.line = e.line

MagnitudeKinds == {"TotalPower", "Energy", "Power", "Current", "Voltage"}
\* <<I, F>>: the integer and fraction digits of a variant's magnitude
Layout(kind) ==
    CASE kind = "Energy" -> <<8, 3>>
      [] kind \in {"TotalPower", "Power"} -> <<4, 3>>
      [] kind \in {"Current", "Voltage"} -> <<3, 1>>

AllDigits(t) == \A i \in 1..Len(t) : IsDigit(t[i])
\* The body is <digits>.<digits>*<unit>) ; its two digit strings.
HasDotStar(body) ==
    /\ Find(body, <<46>>) # None
    /\ Find(body, <<42>>) # None
    /\ Find(body, <<46>>)[1] < Find(body, <<42>>)[1]
IntegerDigits(body) == Take(body, Find(body, <<46>>)[1])
FractionDigits(body) == SubSeq(body, Find(body, <<46>>)[1] + 2, Find(body, <<42>>)[1])
IsMagnitude(body) ==
    /\ HasDotStar(body)
    /\ body[Len(body)] = 41
    /\ Len(IntegerDigits(body)) > 0
    /\ AllDigits(IntegerDigits(body))
    /\ AllDigits(FractionDigits(body))
ExactDigits(kind, body) ==
    /\ IsMagnitude(body)
    /\ Len(IntegerDigits(body)) = Layout(kind)[1]
    /\ Len(FractionDigits(body)) = Layout(kind)[2]

\* A digit string without its leading zeros, and the order of two such strings.
RECURSIVE Stripped(_)
Stripped(t) == IF t # <<>> /\ t[1] = 48 THEN Stripped(Tail(t)) ELSE t
RECURSIVE LexLeq(_, _)
LexLeq(t, u) ==
    IF t = <<>> THEN TRUE
    ELSE IF t[1] # u[1] THEN t[1] < u[1]
    ELSE LexLeq(Tail(t), Tail(u))
DecimalLeq(t, u) ==
    \/ Len(Stripped(t)) < Len(Stripped(u))
    \/ Len(Stripped(t)) = Len(Stripped(u)) /\ LexLeq(Stripped(t), Stripped(u))
\* u32::MAX, 4294967295
U32Max == <<52, 50, 57, 52, 57, 54, 55, 50, 57, 53>>
\* integer * 10^F + fraction is the number the two digit strings spell together
FitsU32(body) == DecimalLeq(IntegerDigits(body) \o FractionDigits(body), U32Max)

\* The n decimal digits of a magnitude (a u32 as <<hi, lo>>, or a u16).
RECURSIVE DecimalOf(_, _)
DecimalOf(v, n) ==
    IF n = 0 THEN <<>>
    ELSE LET t == (v[1] % 10) * 65536 + v[2]
         IN  Append(DecimalOf(<<v[1] \div 10, t \div 10>>, n - 1), 48 + (t % 10))
\* The magnitude decoded (a u16 for voltage and current) is the number the
\* digits of the body spell.
Spells(v, body) ==
    LET digits == IntegerDigits(body) \o FractionDigits(body)
        value == IF v.kind \in {"Current", "Voltage"} THEN <<0, v.value>> ELSE v.value
    IN  DecimalOf(value, Len(digits)) = digits

\* A valid YYMMDDhhmmss and W or S begin the body.
TwoAt(body, i) == (body[i] - 48) * 10 + (body[i + 1] - 48)
\* The lengths of the months of a year of the Gregorian calendar.
MonthLengths(y) ==
    <<31, IF (y % 4 = 0 /\ y % 100 # 0) \/ y % 400 = 0 THEN 29 ELSE 28,
      31, 30, 31, 30, 31, 31, 30, 31, 30, 31>>
IsTimestamp(body) ==
    /\ Len(body) >= 13
    /\ AllDigits(Take(body, 12))
    /\ body[13] \in {87, 83}
    /\ TwoAt(body, 3) \in 1..12
    /\ TwoAt(body, 5) \in 1..MonthLengths(2000 + TwoAt(body, 1))[TwoAt(body, 3)]
    /\ TwoAt(body, 7) < 24 /\ TwoAt(body, 9) < 60 /\ TwoAt(body, 11) < 60

WellFormedBody(kind, body) ==
    IF kind = "DateTime" THEN IsTimestamp(body)
    ELSE ExactDigits(kind, body) /\ FitsU32(body)

-----------------------------------------------------------------------------
(* C7: Object decoding dispatches exactly per the OBIS table: a line that  *)
(* decodes has an identifier of the table and yields the variant of its    *)
(* entry, with the entry's line, kind of power and direction ((0,0,1,0,0)  *)
(* DateTime; (1,0,1..4,7|8,0) TotalPower|Energy; (1,0,c,7,0) per-line Power*)
(* with line c/20 and kind/direction from c mod 20, or Current/Voltage for *)
(* c mod 10 = 1/2); and an identifier of the table before a well-formed    *)
(* body decodes.                                                           *)
C7_DispatchPerTable ==
    Called =>
        \A o \in Shown(arg) :
            /\ res.ok => Entry(o).kind # "none" /\ Agrees(res.val, Entry(o))
            /\ (Entry(o).kind # "none" /\ WellFormedBody(Entry(o).kind, ObjectBody(o, arg)))
                   => res.ok

\* 1-0:42.7.0 decoded as the power of line L2, active, to the grid.
C7_Witness ==
    /\ Called /\ res.ok
    /\ <<1, 0, 42, 7, 0>> \in Shown(arg)
    /\ res.val.kind = "Power" /\ res.val.line = "L2"
    /\ res.val.pow = "Active" /\ res.val.dir = "ToGrid"

(* C8: a line whose prefix before the first '(' parses as an Obis tuple    *)
(* that matches no entry of the decode table is answered with              *)
(* UnrecognizedReference, never InvalidFormat, whatever the body; and      *)
(* UnrecognizedReference is the answer to such lines only.                 *)
C8_UnrecognizedReference ==
    LET halves == SplitOnce(arg, <<40>>)
        unlisted == /\ halves # None
                    /\ ObisFromStrOpt(halves[1][1]) # None
                    /\ Entry(ObisFromStrOpt(halves[1][1])[1]).kind = "none"
    IN  Called => (unlisted <=> Failed("UnrecognizedReference"))

\* 1-0:99.7.0 before a well-formed energy body.
C8_Witness ==
    /\ Failed("UnrecognizedReference")
    /\ arg = ObisDisplay(<<1, 0, 99, 7, 0>>) \o <<40>> \o <<48, 48, 48, 48, 54, 49, 51, 54, 46, 57, 51, 48, 42, 107, 87, 104, 41>>

(* C9: magnitude parsing enforces exact digit counts: in each layout (8/3  *)
(* energy, 4/3 power, 3/1 voltage and current) a value whose integer part  *)
(* has one digit more or fewer than I, or whose fraction part has one      *)
(* digit more or fewer than F, is rejected with InvalidFormat.             *)
C9_ExactDigitCounts ==
    Called =>
        \A o \in Shown(arg) :
            LET kind == Entry(o).kind
                body == ObjectBody(o, arg)
            IN  (/\ kind \in MagnitudeKinds
                 /\ IsMagnitude(body)
                 /\ \/ Len(IntegerDigits(body)) \in {Layout(kind)[1] - 1, Layout(kind)[1] + 1}
                    \/ Len(FractionDigits(body)) \in {Layout(kind)[2] - 1, Layout(kind)[2] + 1})
                    => Failed("InvalidFormat")

(* C10, as stated: every magnitude with exactly I integer and F fraction   *)
(* digits before *<unit>) decodes, to integer * 10^F + fraction.           *)
C10_ExactDigitsDecode ==
    Called =>
        \A o \in Shown(arg) :
            (Entry(o).kind \in MagnitudeKinds /\ ExactDigits(Entry(o).kind, ObjectBody(o, arg)))
                => res.ok /\ Spells(res.val, ObjectBody(o, arg))

(* C10, amended: a magnitude with exactly I integer and F fraction digits  *)
(* before *<unit>) decodes to integer * 10^F + fraction provided that      *)
(* number is at most 4294967295 (u32::MAX), as every 4/3 and 3/1 magnitude *)
(* is; an 8/3 energy above it is rejected with InvalidFormat.              *)
C10_DecodeUnlessOverflow ==
    Called =>
        \A o \in Shown(arg) :
            (Entry(o).kind \in MagnitudeKinds /\ ExactDigits(Entry(o).kind, ObjectBody(o, arg)))
                => IF FitsU32(ObjectBody(o, arg))
                   THEN res.ok /\ Spells(res.val, ObjectBody(o, arg))
                   ELSE Failed("InvalidFormat")

\* The greatest energy that fits, 04294967.295, decoded to u32::MAX.
C10_Witness ==
    /\ Called /\ res.ok
    /\ <<1, 0, 1, 8, 0>> \in Shown(arg)
    /\ ExactDigits("Energy", ObjectBody(<<1, 0, 1, 8, 0>>, arg))
    /\ IntegerDigits(ObjectBody(<<1, 0, 1, 8, 0>>, arg)) = <<48, 52, 50, 57, 52, 57, 54, 55>>
    /\ res.val.value = <<65535, 65535>>

(* C11: for all a, b, c, d, e in 0..255, formatting Obis(a,b,c,d,e) with   *)
(* Display as a-b:c.d.e and parsing the result with Obis::from_str returns *)
(* Ok with the same tuple.                                                 *)
C11_RoundTrip == Called => res = Ok(arg)

\* 255-100:10.9.0, components of three, two and one digits, parsed back.
C11_Witness == Called /\ res.ok /\ arg = <<255, 100, 10, 9, 0>> /\ res.val = arg

-----------------------------------------------------------------------------
(* Instants counted in hours: the days from 1999-01-01 to a date, by the   *)
(* lengths of the years and months between.                                *)

\* the leap years before year y
LeapsBefore(y) == ((y - 1) \div 4) - ((y - 1) \div 100) + ((y - 1) \div 400)
RECURSIVE DaysBeforeMonth(_, _)
DaysBeforeMonth(y, m) ==
    IF m = 1 THEN 0 ELSE DaysBeforeMonth(y, m - 1) + MonthLengths(y)[m - 1]
DayNumber(y, m, d) ==
    365 * (y - 1999) + (LeapsBefore(y) - LeapsBefore(1999)) + DaysBeforeMonth(y, m) + d
HourNumber(y, m, d, h) == 24 * DayNumber(y, m, d) + h

\* The hours the letter after the 12 digits stands for.
HoursEast(body) == IF body[13] = 87 THEN 1 ELSE 2

(* C12: for every valid timestamp body YYMMDDhhmmss followed by W or S,    *)
(* decoding yields the instant whose UTC time is the stated local date and *)
(* time of year 2000+YY minus 1 hour for W and minus 2 hours for S; no     *)
(* other offset is ever applied.                                           *)
C12_InstantOfTimestamp ==
    /\ (Called /\ IsTimestamp(arg)) =>
          /\ res.ok
          /\ LET utc == ToUtc(res.val)
             IN  /\ HourNumber(utc.year, utc.month, utc.day, utc.hour)
                      = HourNumber(2000 + TwoAt(arg, 1), TwoAt(arg, 3), TwoAt(arg, 5),
                                   TwoAt(arg, 7)) - HoursEast(arg)
                 /\ utc.minute = TwoAt(arg, 9)
                 /\ utc.second = TwoAt(arg, 11)
    /\ (Called /\ res.ok) => res.val.offset \in {1, 2}

\* 000101000059S: 2000-01-01 00:00:59 in summer time is
\* 1999-12-31 22:00:59 UTC.
C12_Witness ==
    /\ Called /\ res.ok
    /\ IsTimestamp(arg) /\ HoursEast(arg) = 2
    /\ ToUtc(res.val) = [year |-> 1999, month |-> 12, day |-> 31,
                         hour |-> 22, minute |-> 0, second |-> 59]

(* C13: timestamp decoding returns InvalidFormat for every body whose      *)
(* first 12 characters are not 12 decimal digits forming a valid calendar  *)
(* date (month 01..12, day within the month's length, Feb 29 in leap years *)
(* only) and time of day, or whose 13th character is missing or is neither *)
(* W nor S.                                                                *)
C13_RejectsInvalid == (Called /\ ~IsTimestamp(arg)) => Failed("InvalidFormat")

(* C14: whenever the byte source reports the end of the data (fill_buf     *)
(* returns no bytes), with or without a frame being filled, next_readout   *)
(* returns Ok(None): the call ends, it does not yield the partly filled    *)
(* frame, and so does every later call made while the source stays at the  *)
(* end of its data.                                                        *)
C14_NoneAtEndOfData ==
    [][(pc \in {"scan", "fill"} /\ rest = <<>> /\ eof /\ ev' # "cancel")
          => (pc' = "ready" /\ ret' = RetNone /\ frames' = frames)]_vars

\* None returned at the end of the data with a frame partly filled, after an
\* earlier readout.
C14_Witness ==
    /\ ev = "eof" /\ ret = RetNone /\ pc = "ready"
    /\ rest = <<>>
    /\ buffer # None /\ buffer[1].pos > 1
    /\ frames # <<>>

-----------------------------------------------------------------------------
(* The frame at the head of an input, cut out by positions: the first '/', *)
(* the bytes after it through the first '!' among them, and 4 bytes more.  *)

HasByte(s, b) == \E i \in 1..Len(s) : s[i] = b
FirstByte(s, b) == CHOOSE i \in 1..Len(s) : s[i] = b /\ \A j \in 1..(i - 1) : s[j] # b
AfterSlash(s) == Drop(s, FirstByte(s, Slash))
\* the number of bytes of the frame after its '/'
FrameTail(s) == FirstByte(AfterSlash(s), Bang) + 4
HasFrame(s) ==
    /\ HasByte(s, Slash)
    /\ HasByte(AfterSlash(s), Bang)
    /\ Len(AfterSlash(s)) >= FrameTail(s)
HeadFrame(s) == <<Slash>> \o Take(AfterSlash(s), FrameTail(s))
BehindFrame(s) == Drop(AfterSlash(s), FrameTail(s))

(* C15: every frame yielded by the synchronous Reader has '/' at byte 0,   *)
(* then the input bytes that followed that '/' verbatim and in order up to *)
(* and including the first '!', then exactly the next 4 input bytes, and   *)
(* zero bytes in the rest of the buffer; the input before that '/' is      *)
(* discarded, the next frame is looked for behind the 4 bytes, and no      *)
(* frame is yielded if the input ends before the 4th byte after the '!'.   *)
C15_ReaderFrame ==
    [][syncVars' # syncVars =>
          IF HasFrame(iter) /\ Len(HeadFrame(iter)) <= Capacity
          THEN /\ sret' = RetSome(Pad(HeadFrame(iter)))
               /\ sframes' = Append(sframes, Pad(HeadFrame(iter)))
               /\ iter' = BehindFrame(iter)
          ELSE /\ sret' = RetNone
               /\ sframes' = sframes]_vars

\* A second frame yielded, with a byte between its '/' and its '!' and a '!'
\* and a '/' among its 4 last bytes.
C15_Witness ==
    /\ Len(sframes) = 2
    /\ sret = RetSome(sframes[2])
    /\ sframes[2][2] # Bang /\ sframes[2][3] = Bang
    /\ \E i \in 4..7 : sframes[2][i] = Bang
    /\ \E i \in 4..7 : sframes[2][i] = Slash

-----------------------------------------------------------------------------
(* The bytes the source has been told to consume, in a run over a finite   *)
(* stream: input less what is left of it.                                  *)
Consumed == Len(input) - Len(rest)

\* Filling: the Buffer holds the last pos bytes consumed, the first of them a
\* '/'; an empty Buffer has the '/' of its frame next in the source.
C16_Filling ==
    buffer # None =>
        LET b == buffer[1]
        IN  /\ b.pos <= Consumed
            /\ \A i \in 1..b.pos : b.data[i] = input[Consumed - b.pos + i]
            /\ \A i \in (b.pos + 1)..Capacity : b.data[i] = 0
            /\ b.pos >= 1 => b.data[1] = Slash
            /\ b.pos = 0 => (rest # <<>> /\ rest[1] = Slash)
\* Filling: the bytes a step consumes are written from data[pos] on.
C16_FillingStep ==
    (buffer # None /\ buffer' # None) =>
        \A i \in 1..(Len(rest) - Len(rest')) : buffer'[1].data[buffer[1].pos + i] = rest[i]
\* Idle: no '/' is consumed, and a frame is begun with its '/' still in the
\* source.
C16_IdleStep ==
    buffer = None =>
        /\ \A i \in 1..(Len(rest) - Len(rest')) : rest[i] # Slash
        /\ buffer' # None => (buffer'[1].pos = 0 /\ rest' # <<>> /\ rest'[1] = Slash)

(* C16: at every await of fill_buf, in Filling state pos is the number of  *)
(* source bytes consumed since and including the frame's leading '/',      *)
(* data[0..pos) is exactly those bytes in order (data[0] = '/' once        *)
(* pos >= 1) and the first unconsumed source byte is the one to be written *)
(* at data[pos]; in Idle state no '/' that starts a pending frame has been *)
(* consumed: the bytes consumed are those of frames yielded or discarded.  *)
C16_ScannerInvariant ==
    []C16_Filling /\ [][C16_FillingStep /\ C16_IdleStep]_vars

\* A call resumed after a cancellation, with a '/' and more in the Buffer and
\* bytes still to come.
C16_Witness ==
    /\ pc = "fill" /\ hist.cancel
    /\ buffer # None /\ buffer[1].pos >= 3
    /\ rest # <<>>

(* C17: every frame yielded by the incremental scanner ends exactly 4      *)
(* bytes after the first '!' that follows its leading '/': with that '!'   *)
(* written at index p, the frame is yielded when the byte at index p + 4   *)
(* has been written, nothing is written behind it, and the scanner is then *)
(* Idle, whatever the 4 bytes after the '!' are.                           *)
C17_EndsFourAfterBang ==
    ev = "yield" =>
        LET data == ret[2]
            bang == CHOOSE i \in 1..Capacity :
                        data[i] = Bang /\ \A j \in 1..(i - 1) : data[j] # Bang
        IN  /\ buffer = None
            /\ bang + 4 <= Capacity
            /\ data[bang + 4] # 0
            /\ \A i \in (bang + 5)..Capacity : data[i] = 0

(* C18: when next_readout returns a frame, the source has been told to     *)
(* consume every byte of that frame and nothing after it: the bytes        *)
(* consumed end with the bytes of the frame, so that no byte copied into   *)
(* a yielded frame is presented again to a later call.                     *)
C18_ConsumesWholeFrame ==
    ev = "yield" =>
        LET data == ret[2]
            n == Cardinality({i \in 1..Capacity : data[i] # 0})
        IN  /\ n <= Consumed
            /\ \A i \in 1..n : data[i] = input[Consumed - n + i]

\* u16::MAX, 65535
U16Max == <<54, 53, 53, 51, 53>>
\* The number the digits of the body spell fits the integer of its variant.
Fits(kind, body) ==
    DecimalLeq(IntegerDigits(body) \o FractionDigits(body),
               IF kind \in {"Current", "Voltage"} THEN U16Max ELSE U32Max)

(* C19: magnitude decoding never wraps or saturates: whenever              *)
(* integer * 10^F + fraction does not fit the backing integer (u32 for the *)
(* layouts of 3 fraction digits, u16 for the layout of 1) the result is    *)
(* InvalidFormat, and whenever decoding succeeds the magnitude returned is *)
(* integer * 10^F + fraction exactly.                                      *)
C19_NeverWraps ==
    Called =>
        \A o \in Shown(arg) :
            LET kind == Entry(o).kind
                body == ObjectBody(o, arg)
            IN  (kind \in MagnitudeKinds /\ IsMagnitude(body)) =>
                    /\ (Len(FractionDigits(body)) = Layout(kind)[2] /\ ~Fits(kind, body))
                           => Failed("InvalidFormat")
                    /\ res.ok => Spells(res.val, body)

\* 9999.9 V, more than a u16 holds and less than a u32, rejected.
C19_Witness ==
    /\ Failed("InvalidFormat")
    /\ <<1, 0, 72, 7, 0>> \in Shown(arg)
    /\ LET body == ObjectBody(<<1, 0, 72, 7, 0>>, arg)
       IN  /\ IsMagnitude(body)
           /\ Len(FractionDigits(body)) = 1
           /\ FitsU32(body)
           /\ ~Fits("Voltage", body)

-----------------------------------------------------------------------------
(* The grammar <u8>-<u8>:<u8>.<u8>.<u8>: five runs of decimal digits, each *)
(* a number of 0..255, between the separators '-', ':', '.', '.'.          *)

IsU8(t) == t # <<>> /\ AllDigits(t) /\ DecimalLeq(t, <<50, 53, 53>>)
Between(s, i, j) == [k \in 1..(j - i - 1) |-> s[i + k]]
At(s, c) == {i \in 1..Len(s) : s[i] = c}
InGrammar(s) ==
    \E i \in At(s, 45), j \in At(s, 58) :
        \E k \in At(s, 46), l \in At(s, 46) :
            /\ i < j /\ j < k /\ k < l
            /\ IsU8(Between(s, 0, i))
            /\ IsU8(Between(s, i, j))
            /\ IsU8(Between(s, j, k))
            /\ IsU8(Between(s, k, l))
            /\ IsU8(Between(s, l, Len(s) + 1))

(* C20: Obis parsing succeeds only on strings that match the grammar       *)
(* <u8>-<u8>:<u8>.<u8>.<u8> exactly; every other string, including one     *)
(* with a missing or extra component or a non-digit character inside a     *)
(* component, yields InvalidFormat and no tuple.                           *)
C20_OnlyTheGrammar ==
    Called =>
        /\ res.ok => InGrammar(arg)
        /\ ~InGrammar(arg) => Failed("InvalidFormat")

(* C21: decoding never aborts: for every input line Object::from_str       *)
(* returns Ok or Err without reaching an unreachable!() arm, and calls     *)
(* pow_dir only with a value in 1..4; to_telegram returns Ok or Err for    *)
(* every frame a scanner yields.                                           *)
C21_NeverAborts ==
    /\ res # Panic
    /\ arg \notin ScannerReadouts => PowDirCalls(arg) \subseteq 1..4

\* "1-0:64.7.0(0000.806*kW)" has been decoded through the matches on c / 20
\* and pow_dir(c % 20) to the power of line 3.
C21_Witness ==
    /\ arg = ObisDisplay(<<1, 0, 64, 7, 0>>) \o <<40>>
                 \o <<48, 48, 48, 48, 46, 56, 48, 54, 42, 107, 87, 41>>
    /\ PowDirCalls(arg) = {4}
    /\ res.ok
    /\ res.val.kind = "Power" /\ res.val.line = "L3"

====
